---- MODULE Spec2Model ----
(***************************************************************************)
(* Che URL Shortener backend (backend/main.go): the in-memory collection   *)
(* urls, its backing file urls.json, the mutex urlMutex, and one goroutine *)
(* per HTTP request running rootHandler / createURLHandler /               *)
(* getURLsHandler.                                                         *)
(*                                                                         *)
(* Strings that the code only compares or concatenates are TLA+ strings.   *)
(* A submitted URL is a sequence of one-character strings so that          *)
(* url.ParseRequestURI can be computed on it.  A request path is a         *)
(* sequence of tokens ("/" and path words) so that strings.HasPrefix and   *)
(* strings.TrimPrefix can be computed on it.                               *)
(***************************************************************************)
EXTENDS Integers, Sequences, FiniteSets, TLC

(* ------------------------------ bounds --------------------------------- *)
NumProcs == 2        \* goroutines that serve requests concurrently
MaxRequests == 2     \* requests the router starts handling in one run

Procs == 1..NumProcs

(* ------------------------------ word lists ----------------------------- *)
adjectives ==
  << "quick", "lazy", "sleepy", "noisy", "hungry", "brave", "bright", "calm", "eager", "fancy",
     "gentle", "happy", "jolly", "kind", "lively", "merry", "nice", "proud", "silly", "witty",
     "clever", "dizzy", "grumpy", "lucky", "mighty", "plucky", "shiny", "tiny", "zany", "breezy",
     "bubbly", "cheery", "comfy", "cozy", "crispy", "curly", "fluffy", "fuzzy", "gloomy", "groovy",
     "hazy", "icy", "jazzy", "jumpy", "quirky", "snappy", "sunny", "tasty", "vibey", "zippy" >>

nouns ==
  << "fox", "dog", "cat", "mouse", "bird", "wolf", "lion", "tiger", "bear", "frog",
     "fish", "shark", "whale", "squid", "crab", "snake", "lizard", "gecko", "newt", "otter",
     "seal", "duck", "goose", "swan", "crow", "raven", "owl", "hawk", "eagle", "pigeon",
     "robin", "finch", "sparrow", "horse", "pony", "donkey", "mule", "cow", "bull", "pig",
     "sheep", "goat", "llama", "alpaca", "camel", "koala", "panda", "sloth", "lemur", "hippo" >>

\* the values rand.Intn(len(adjectives)) and rand.Intn(len(nouns)) return in
\* the model: the generator draws among two codes
AdjectiveDraws == { 0, 1 }
NounDraws == { 0 }

\* the readings of the wall clock in the model, in half seconds
Instants == { 2, 3 }

\* a format string without the hyphen
SprintfNoHyphen(adj, noun) == adj \o noun

\* fmt.Sprintf("%s-%s", adj, noun)
Sprintf(adj, noun) == adj \o "-" \o noun

\* every code the generator can produce
Codes == { Sprintf(adjectives[a + 1], nouns[n + 1]) : a \in AdjectiveDraws, n \in NounDraws }

(* ------------------------------ strings -------------------------------- *)
Letters == { "a", "b", "c", "d", "e", "f", "g", "h", "i", "j", "k", "l", "m",
             "n", "o", "p", "q", "r", "s", "t", "u", "v", "w", "x", "y", "z" }

\* strings.HasPrefix on sequences
HasPrefix(s, prefix) ==
  /\ Len(s) >= Len(prefix)
  /\ SubSeq(s, 1, Len(prefix)) = prefix

\* strings.TrimPrefix on sequences
TrimPrefix(s, prefix) ==
  IF HasPrefix(s, prefix) THEN SubSeq(s, Len(prefix) + 1, Len(s)) ELSE s

\* strings.Index(s, c): 0-based index of the first c in s, -1 when absent
Index(s, c) ==
  IF \E i \in 1..Len(s) : s[i] = c
    THEN (CHOOSE i \in 1..Len(s) : s[i] = c /\ \A j \in 1..(i - 1) : s[j] # c) - 1
    ELSE -1

\* the string a token sequence spells
RECURSIVE Join(_)
Join(toks) == IF toks = << >> THEN "" ELSE Head(toks) \o Join(Tail(toks))

(* ------------------------------ url.ParseRequestURI -------------------- *)
Digits == { "0", "1", "2", "3", "4", "5", "6", "7", "8", "9" }

\* net/url getScheme: the loop over rawURL from position i (1-based)
RECURSIVE getSchemeFrom(_, _)
getSchemeFrom(rawURL, i) ==
  IF i > Len(rawURL) THEN [scheme |-> << >>, rest |-> rawURL, err |-> ""]
  ELSE IF rawURL[i] \in Letters THEN getSchemeFrom(rawURL, i + 1)
  ELSE IF rawURL[i] \in Digits \cup { "+", "-", "." }
    THEN IF i = 1 THEN [scheme |-> << >>, rest |-> rawURL, err |-> ""]
         ELSE getSchemeFrom(rawURL, i + 1)
  ELSE IF rawURL[i] = ":"
    THEN IF i = 1 THEN [scheme |-> << >>, rest |-> << >>, err |-> "missing protocol scheme"]
         ELSE [scheme |-> SubSeq(rawURL, 1, i - 1),
               rest |-> SubSeq(rawURL, i + 1, Len(rawURL)), err |-> ""]
  ELSE [scheme |-> << >>, rest |-> rawURL, err |-> ""]

getScheme(rawURL) == getSchemeFrom(rawURL, 1)

\* strings.Cut(rest, "?"): the part before the first "?"
BeforeQuery(rest) ==
  IF Index(rest, "?") >= 0 THEN SubSeq(rest, 1, Index(rest, "?")) ELSE rest

\* net/url validOptionalPort applied to the text after the host's last ":"
validOptionalPort(authority) ==
  \/ Index(authority, ":") < 0
  \/ \A i \in (Index(authority, ":") + 2)..Len(authority) : authority[i] \in Digits

\* the authority of "//authority/path" and the path that follows it
AuthorityOf(rest) ==
  IF Index(SubSeq(rest, 3, Len(rest)), "/") >= 0
    THEN SubSeq(rest, 3, 2 + Index(SubSeq(rest, 3, Len(rest)), "/"))
    ELSE SubSeq(rest, 3, Len(rest))

PathAfterAuthority(rest) ==
  SubSeq(rest, 3 + Len(AuthorityOf(rest)), Len(rest))

NoURL == [err |-> "", Scheme |-> << >>, Opaque |-> << >>, Host |-> << >>, Path |-> << >>]

\* url.ParseRequestURI(rawURL) = parse(rawURL, viaRequest = true), for inputs
\* without control bytes, "%" escapes, userinfo or bracketed hosts
ParseRequestURI(rawURL) ==
  IF rawURL = << >> THEN [NoURL EXCEPT !.err = "empty url"]
  ELSE IF rawURL = << "*" >> THEN [NoURL EXCEPT !.Path = << "*" >>]
  ELSE IF getScheme(rawURL).err # "" THEN [NoURL EXCEPT !.err = getScheme(rawURL).err]
  ELSE LET scheme == getScheme(rawURL).scheme
           rest == BeforeQuery(getScheme(rawURL).rest)
       IN IF ~HasPrefix(rest, << "/" >>)
            THEN IF scheme # << >>
                   THEN [NoURL EXCEPT !.Scheme = scheme, !.Opaque = rest]
                   ELSE [NoURL EXCEPT !.err = "invalid URI for request"]
          ELSE IF scheme # << >> /\ HasPrefix(rest, << "/", "/" >>)
            THEN IF validOptionalPort(AuthorityOf(rest))
                   THEN [NoURL EXCEPT !.Scheme = scheme, !.Host = AuthorityOf(rest),
                                      !.Path = PathAfterAuthority(rest)]
                   ELSE [NoURL EXCEPT !.err = "invalid port after host"]
          ELSE [NoURL EXCEPT !.Scheme = scheme, !.Path = rest]

(* ------------------------------ records and JSON ----------------------- *)
\* type URLRecord struct
URLRecord(shortCode, longURL, createdAt, usageCount) ==
  [ShortCode |-> shortCode, LongURL |-> longURL, CreatedAt |-> createdAt,
   UsageCount |-> usageCount]

\* time.Now().UTC().Format(time.RFC3339): whole seconds, the fraction is dropped
FormatRFC3339(instant) == instant \div 2

\* a marshal that writes a usage_count one ahead of the record's
MarshalRecordCountAhead(r) ==
  [short_code |-> r.ShortCode, long_url |-> r.LongURL, created_at |-> r.CreatedAt,
   usage_count |-> r.UsageCount + 1]

\* the JSON object the struct tags of URLRecord give
MarshalRecord(r) ==
  [short_code |-> r.ShortCode, long_url |-> r.LongURL, created_at |-> r.CreatedAt,
   usage_count |-> r.UsageCount]

\* an unmarshal whose struct tag for UsageCount does not match the key written
UnmarshalRecordWrongTag(o) ==
  URLRecord(o.short_code, o.long_url, o.created_at, 0)

UnmarshalRecord(o) ==
  URLRecord(o.short_code, o.long_url, o.created_at, o.usage_count)

\* a marshal that writes the last record only instead of the whole collection
MarshalIndentLastRecord(recs) ==
  IF recs = << >> THEN << >> ELSE << MarshalRecord(recs[Len(recs)]) >>

\* json.MarshalIndent(urls, "", "  "): a JSON array, one object per record
MarshalIndent(recs) == [i \in 1..Len(recs) |-> MarshalRecord(recs[i])]

\* json.Unmarshal(data, &urls)
Unmarshal(array) == [i \in 1..Len(array) |-> UnmarshalRecord(array[i])]

\* contents of urls.json: absent, a JSON array, or bytes that are no JSON
\* document (a write that failed after the file was truncated)
FileAbsent == [state |-> "absent", body |-> << >>]
FileTorn == [state |-> "torn", body |-> << >>]
FileJSON(array) == [state |-> "json", body |-> array]

(* ------------------------------ state ---------------------------------- *)
VARIABLES
  phase,       \* "init" before init() has run, "serving" once main serves, "fatal" after log.Fatalf
  urls,        \* var urls []URLRecord
  file,        \* contents of jsonFilePath
  urlMutex,    \* var urlMutex: 0 when unlocked, else the goroutine that holds it
  pc,          \* per goroutine: the statement it executes next
  req,         \* per goroutine: the request r it handles
  shortCode,   \* per goroutine: local shortCode of createURLHandler / rootHandler
  drawn,       \* per goroutine: local code of the generator loop, the pair drawn last
  found,       \* per goroutine: local found of rootHandler
  targetURL,   \* per goroutine: local targetURL of rootHandler
  saveErr,     \* per goroutine: whether saveURLs() returned an error
  urlsCopy,    \* per goroutine: local urlsCopy of getURLsHandler
  idx,         \* per goroutine: loop index i of rootHandler at the match, 0 before
  count,       \* per goroutine: urls[i].UsageCount as read by the ++ of rootHandler
  resp,        \* per goroutine: what has been written to w
  started,     \* history: number of requests rootHandler has started handling
  loaded,      \* history: the collection as init() loaded it
  redirected,  \* history: per short code, requests answered 302
  failed,      \* history: per short code, requests answered 500 after their lookup found a record
  acked,       \* history: the (short_code, url) pairs answered 201, in order
  refused,     \* history: the short codes of creates answered 500
  snap,        \* history: per goroutine, the collection when it last took the mutex
  failedLast,  \* history: whether the most recent os.WriteFile returned an error
  written      \* history: the collection of the most recent saveURLs() that succeeded

vars == << phase, urls, file, urlMutex, pc, req, shortCode, drawn, found, targetURL, saveErr,
           urlsCopy, idx, count, resp, started, loaded, redirected, failed, acked,
           refused, snap, failedLast, written >>

locals == << shortCode, drawn, found, targetURL, saveErr, urlsCopy, idx, count >>
history == << started, loaded, redirected, failed, acked, refused, snap, failedLast, written >>

(* ------------------------------ requests ------------------------------- *)
ApiPrefix == << "/", "api", "/", "urls" >>

\* a router that takes the prefix with a trailing slash
IsApiPathTrailingSlash(path) == HasPrefix(path, ApiPrefix \o << "/" >>)

\* strings.HasPrefix(r.URL.Path, "/api/urls")
IsApiPath(path) == HasPrefix(path, ApiPrefix)

\* request bodies: one that json.Decode rejects, or {"url": u}
MalformedBody == [malformed |-> TRUE, url |-> << >>]
JSONBody(u) == [malformed |-> FALSE, url |-> u]

\* "", "n-a", ":e", "/p", "h:e", "h://e" as character sequences
UrlInputs ==
  { << >>,
    << "n", "-", "a" >>,
    << ":", "e" >>,
    << "/", "p" >>,
    << "h", ":", "e" >>,
    << "h", ":", "/", "/", "e" >> }

\* the methods tried on paths outside the API prefix, where rootHandler does
\* not look at the method; on the API prefix DELETE stands for every method
\* other than GET and POST
Methods == { "GET", "POST" }

\* paths outside the API prefix: the root, one path per code, one unknown word
OtherPaths == { << "/" >>, << "/", "nope" >> } \cup { << "/", c >> : c \in Codes }

Requests ==
  { [method |-> "POST", path |-> ApiPrefix, body |-> b] :
      b \in { MalformedBody } \cup { JSONBody(u) : u \in UrlInputs } }
  \cup { [method |-> m, path |-> ApiPrefix, body |-> MalformedBody] : m \in { "GET", "DELETE" } }
  \cup { [method |-> m, path |-> p, body |-> MalformedBody] : m \in Methods, p \in OtherPaths }

NoRequest == [method |-> "", path |-> << >>, body |-> MalformedBody]

(* ------------------------------ responses ------------------------------ *)
NoResponse ==
  [status |-> 0, error |-> "", short_code |-> "", location |-> << >>, list |-> << >>]

\* writeJSONError(w, message, status)
writeJSONError(message, status) ==
  [NoResponse EXCEPT !.status = status, !.error = message]

\* the 201 answer of createURLHandler
CreatedResponse(code) == [NoResponse EXCEPT !.status = 201, !.short_code = code]

\* the 200 answer of getURLsHandler
ListResponse(copy) == [NoResponse EXCEPT !.status = 200, !.list = MarshalIndent(copy)]

\* http.Redirect(w, r, targetURL, http.StatusFound)
Redirect(target) == [NoResponse EXCEPT !.status = 302, !.location = target]

\* staticFileServer.ServeHTTP: the asset root holds index.html only
ServeStatic(path) ==
  IF path = << "/" >> THEN [NoResponse EXCEPT !.status = 200]
  ELSE [NoResponse EXCEPT !.status = 404]

(* ------------------------------ start-up ------------------------------- *)
\* a record written by an earlier run of the service
StoredRecord == URLRecord(Sprintf(adjectives[1], nouns[1]),
                          << "h", ":", "/", "/", "e" >>, 0, 1)

\* a record, put into the file by hand, whose short code is the API prefix
\* without its leading slash
ApiNamedRecord ==
  URLRecord(Join(TrimPrefix(ApiPrefix, << "/" >>)), << "h", ":", "/", "/", "e" >>, 0, 1)

\* a second record written by an earlier run: with StoredRecord it uses up
\* every pair the generator draws
SecondStoredRecord == URLRecord(Sprintf(adjectives[2], nouns[1]), << "/", "p" >>, 0, 0)

\* what jsonFilePath may hold when the process starts
InitFiles ==
  { FileAbsent, FileTorn, FileJSON(<< >>), FileJSON(MarshalIndent(<< StoredRecord >>)),
    FileJSON(MarshalIndent(<< ApiNamedRecord >>)),
    FileJSON(MarshalIndent(<< StoredRecord, SecondStoredRecord >>)) }

\* every short code a request or a record of the model can carry
CodeUniverse == Codes \cup { "nope", "", StoredRecord.ShortCode, ApiNamedRecord.ShortCode }

\* what saveURLs() last wrote with success: nothing yet, or a collection
NothingWritten == [ok |-> FALSE, recs |-> << >>]
Written(recs) == [ok |-> TRUE, recs |-> recs]

Init ==
  /\ phase = "init"
  /\ urls = << >>
  /\ file \in InitFiles
  /\ urlMutex = 0
  /\ pc = [p \in Procs |-> "idle"]
  /\ req = [p \in Procs |-> NoRequest]
  /\ shortCode = [p \in Procs |-> ""]
  /\ drawn = [p \in Procs |-> ""]
  /\ found = [p \in Procs |-> FALSE]
  /\ targetURL = [p \in Procs |-> << >>]
  /\ saveErr = [p \in Procs |-> FALSE]
  /\ urlsCopy = [p \in Procs |-> << >>]
  /\ idx = [p \in Procs |-> 0]
  /\ count = [p \in Procs |-> 0]
  /\ resp = [p \in Procs |-> NoResponse]
  /\ started = 0
  /\ loaded = << >>
  /\ redirected = [c \in CodeUniverse |-> 0]
  /\ failed = [c \in CodeUniverse |-> 0]
  /\ acked = << >>
  /\ refused = { }
  /\ snap = [p \in Procs |-> << >>]
  /\ failedLast = FALSE
  /\ written = NothingWritten

\* an init() that logs the unmarshal error and goes on with an empty collection
LoadIgnoresParseError ==
  /\ phase = "init"
  /\ \E ioOK \in BOOLEAN :
       LET created == IF file.state = "absent" THEN FileJSON(<< >>) ELSE file
       IN IF ~ioOK
            THEN /\ phase' = "fatal"
                 /\ UNCHANGED << urls, file, loaded >>
          ELSE IF created.state # "json"
            THEN /\ phase' = "serving"
                 /\ file' = created
                 /\ UNCHANGED << urls, loaded >>
          ELSE /\ phase' = "serving"
               /\ file' = created
               /\ urls' = Unmarshal(created.body)
               /\ loaded' = Unmarshal(created.body)
  /\ UNCHANGED << urlMutex, pc, req, locals, resp, started, redirected, failed, acked,
                  refused, snap, failedLast, written >>

\* func init(): create the file when absent, read it, unmarshal it into urls;
\* any failure is log.Fatalf.  ioOK is whether the file system lets the
\* create and the read succeed.
Load ==
  /\ phase = "init"
  /\ \E ioOK \in BOOLEAN :
       LET created == IF file.state = "absent" THEN FileJSON(<< >>) ELSE file
       IN IF ~ioOK
            THEN /\ phase' = "fatal"
                 /\ UNCHANGED << urls, file, loaded >>
          ELSE IF created.state # "json"
            THEN /\ phase' = "fatal"
                 /\ file' = created
                 /\ UNCHANGED << urls, loaded >>
          ELSE /\ phase' = "serving"
               /\ file' = created
               /\ urls' = Unmarshal(created.body)
               /\ loaded' = Unmarshal(created.body)
  /\ UNCHANGED << urlMutex, pc, req, locals, resp, started, redirected, failed, acked,
                  refused, snap, failedLast, written >>

(* ------------------------------ shared helpers ------------------------- *)
\* a Lock() that never waits
MutexFreeNoWait(m) == TRUE

\* urlMutex.Lock() returns only when nobody holds the mutex
MutexFree(m) == m = 0

\* a scan that never finds the code
IsUniqueNoScan(code, recs) == TRUE

\* the scan "for _, record := range urls" of createURLHandler
IsUnique(code, recs) == \A i \in 1..Len(recs) : recs[i].ShortCode # code

\* a scan that takes the first record whatever its ShortCode
FirstMatchAnyCode(recs, code) == IF Len(recs) > 0 THEN 1 ELSE 0

\* the scan "for i := range urls" of rootHandler: the first index whose
\* ShortCode equals code, 0 when there is none
FirstMatch(recs, code) ==
  IF \E i \in 1..Len(recs) : recs[i].ShortCode = code
    THEN CHOOSE i \in 1..Len(recs) :
           /\ recs[i].ShortCode = code
           /\ \A j \in 1..(i - 1) : recs[j].ShortCode # code
    ELSE 0

\* a store that adds the increment twice
StoreUsageTwice(recs, i, n) == [recs EXCEPT ![i].UsageCount = n + 1]

\* the store half of urls[i].UsageCount++
StoreUsage(recs, i, n) == [recs EXCEPT ![i].UsageCount = n]

\* what os.WriteFile can do: succeed, fail before it truncates the file (the
\* open fails), or fail after it truncated it (a write fails)
WriteOutcomes == { "ok", "open_fails", "write_fails" }

\* a saveURLs that marshals but never writes the file
saveURLsNoWrite(recs, f, outcome) == [file |-> f, err |-> outcome # "ok"]

\* func saveURLs(): the file afterwards and whether an error is returned
saveURLs(recs, f, outcome) ==
  IF outcome = "ok" THEN [file |-> FileJSON(MarshalIndent(recs)), err |-> FALSE]
  ELSE IF outcome = "open_fails" THEN [file |-> f, err |-> TRUE]
  ELSE [file |-> FileTorn, err |-> TRUE]

\* the checks with the URI parse moved before the emptiness check
ValidationErrorParseFirst(body) ==
  IF body.malformed THEN "Invalid request body"
  ELSE IF ParseRequestURI(body.url).err # "" THEN "Invalid URL format"
  ELSE IF body.url = << >> THEN "URL is required"
  ELSE ""

\* the three checks at the top of createURLHandler: the message of the first
\* one that fails, "" when all pass
ValidationError(body) ==
  IF body.malformed THEN "Invalid request body"
  ELSE IF body.url = << >> THEN "URL is required"
  ELSE IF ParseRequestURI(body.url).err # "" THEN "Invalid URL format"
  ELSE ""

\* a handler returns: the request, the response writer and the goroutine's
\* local variables are gone
Forget(p) ==
  /\ req' = [req EXCEPT ![p] = NoRequest]
  /\ resp' = [resp EXCEPT ![p] = NoResponse]
  /\ shortCode' = [shortCode EXCEPT ![p] = ""]
  /\ drawn' = [drawn EXCEPT ![p] = ""]
  /\ found' = [found EXCEPT ![p] = FALSE]
  /\ targetURL' = [targetURL EXCEPT ![p] = << >>]
  /\ saveErr' = [saveErr EXCEPT ![p] = FALSE]
  /\ urlsCopy' = [urlsCopy EXCEPT ![p] = << >>]
  /\ idx' = [idx EXCEPT ![p] = 0]
  /\ count' = [count EXCEPT ![p] = 0]
  /\ snap' = [snap EXCEPT ![p] = << >>]

(* ------------------------------ rootHandler: routing ------------------- *)
\* a router that looks the short code up for GET requests only and hands
\* every other method to the static file server
RouteLookupGetOnly(p) ==
  /\ phase = "serving"
  /\ pc[p] = "idle"
  /\ started < MaxRequests
  /\ \E r \in Requests :
       /\ req' = [req EXCEPT ![p] = r]
       /\ IF IsApiPath(r.path)
            THEN /\ shortCode' = [shortCode EXCEPT ![p] = ""]
                 /\ IF r.method = "GET"
                      THEN /\ pc' = [pc EXCEPT ![p] = "list_lock"]
                           /\ resp' = [resp EXCEPT ![p] = NoResponse]
                    ELSE IF r.method = "POST"
                      THEN /\ pc' = [pc EXCEPT ![p] = "create"]
                           /\ resp' = [resp EXCEPT ![p] = NoResponse]
                    ELSE /\ pc' = [pc EXCEPT ![p] = "return"]
                         /\ resp' = [resp EXCEPT ![p] = writeJSONError("Method Not Allowed", 405)]
            ELSE /\ shortCode' = [shortCode EXCEPT ![p] = Join(TrimPrefix(r.path, << "/" >>))]
                 /\ resp' = [resp EXCEPT ![p] = NoResponse]
                 /\ IF Join(TrimPrefix(r.path, << "/" >>)) # "" /\ r.method = "GET"
                      THEN pc' = [pc EXCEPT ![p] = "redirect_lock"]
                      ELSE pc' = [pc EXCEPT ![p] = "static"]
  /\ started' = started + 1
  /\ UNCHANGED << phase, urls, file, urlMutex, drawn, found, targetURL, saveErr, urlsCopy,
                  idx, count, loaded, redirected, failed, acked, refused, snap, failedLast,
                  written >>

\* the goroutine of a new request enters rootHandler and is dispatched
Route(p) ==
  /\ phase = "serving"
  /\ pc[p] = "idle"
  /\ started < MaxRequests
  /\ \E r \in Requests :
       /\ req' = [req EXCEPT ![p] = r]
       /\ IF IsApiPath(r.path)
            THEN /\ shortCode' = [shortCode EXCEPT ![p] = ""]
                 /\ IF r.method = "GET"
                      THEN /\ pc' = [pc EXCEPT ![p] = "list_lock"]
                           /\ resp' = [resp EXCEPT ![p] = NoResponse]
                    ELSE IF r.method = "POST"
                      THEN /\ pc' = [pc EXCEPT ![p] = "create"]
                           /\ resp' = [resp EXCEPT ![p] = NoResponse]
                    ELSE /\ pc' = [pc EXCEPT ![p] = "return"]
                         /\ resp' = [resp EXCEPT ![p] = writeJSONError("Method Not Allowed", 405)]
            ELSE /\ shortCode' = [shortCode EXCEPT ![p] = Join(TrimPrefix(r.path, << "/" >>))]
                 /\ resp' = [resp EXCEPT ![p] = NoResponse]
                 /\ IF Join(TrimPrefix(r.path, << "/" >>)) # ""
                      THEN pc' = [pc EXCEPT ![p] = "redirect_lock"]
                      ELSE pc' = [pc EXCEPT ![p] = "static"]
  /\ started' = started + 1
  /\ UNCHANGED << phase, urls, file, urlMutex, drawn, found, targetURL, saveErr, urlsCopy,
                  idx, count, loaded, redirected, failed, acked, refused, snap, failedLast,
                  written >>

(* ------------------------------ createURLHandler ----------------------- *)
\* decode the body and validate the url; a failure answers 400 and returns
CreateValidate(p) ==
  /\ pc[p] = "create"
  /\ IF ValidationError(req[p].body) # ""
       THEN /\ resp' = [resp EXCEPT ![p] = writeJSONError(ValidationError(req[p].body), 400)]
            /\ pc' = [pc EXCEPT ![p] = "return"]
       ELSE /\ pc' = [pc EXCEPT ![p] = "create_lock"]
            /\ UNCHANGED resp
  /\ UNCHANGED << phase, urls, file, urlMutex, req, locals, history >>

\* createURLHandler entering its critical section without waiting for the mutex
CreateLockNoWait(p) ==
  /\ pc[p] = "create_lock"
  /\ urlMutex' = p
  /\ snap' = [snap EXCEPT ![p] = urls]
  /\ pc' = [pc EXCEPT ![p] = "create_draw"]
  /\ UNCHANGED << phase, urls, file, req, locals, resp, started, loaded, redirected,
                  failed, acked, refused, failedLast, written >>

\* urlMutex.Lock(); defer urlMutex.Unlock()
CreateLock(p) ==
  /\ pc[p] = "create_lock"
  /\ MutexFree(urlMutex)
  /\ urlMutex' = p
  /\ snap' = [snap EXCEPT ![p] = urls]
  /\ pc' = [pc EXCEPT ![p] = "create_draw"]
  /\ UNCHANGED << phase, urls, file, req, locals, resp, started, loaded, redirected,
                  failed, acked, refused, failedLast, written >>

\* a generator loop that gives up at the first pair already in use and lets
\* the create answer 500
CreateDrawGivesUp(p) ==
  /\ pc[p] = "create_draw"
  /\ \E a \in AdjectiveDraws, n \in NounDraws :
       LET code == Sprintf(adjectives[a + 1], nouns[n + 1])
       IN /\ drawn' = [drawn EXCEPT ![p] = code]
          /\ IF IsUnique(code, urls)
               THEN /\ shortCode' = [shortCode EXCEPT ![p] = code]
                    /\ pc' = [pc EXCEPT ![p] = "create_append"]
                    /\ UNCHANGED saveErr
               ELSE /\ saveErr' = [saveErr EXCEPT ![p] = TRUE]
                    /\ pc' = [pc EXCEPT ![p] = "create_respond"]
                    /\ UNCHANGED shortCode
  /\ UNCHANGED << phase, urls, file, urlMutex, req, found, targetURL, urlsCopy,
                  idx, count, resp, history >>

\* one iteration of the generator loop: draw a pair, scan urls for it
CreateDraw(p) ==
  /\ pc[p] = "create_draw"
  /\ \E a \in AdjectiveDraws, n \in NounDraws :
       LET code == Sprintf(adjectives[a + 1], nouns[n + 1])
       IN /\ drawn' = [drawn EXCEPT ![p] = code]
          /\ IF IsUnique(code, urls)
               THEN /\ shortCode' = [shortCode EXCEPT ![p] = code]
                    /\ pc' = [pc EXCEPT ![p] = "create_append"]
               ELSE UNCHANGED << shortCode, pc >>
  /\ UNCHANGED << phase, urls, file, urlMutex, req, found, targetURL, saveErr, urlsCopy,
                  idx, count, resp, history >>

\* a create that puts its record in front of the collection
CreateAppendInFront(p) ==
  /\ pc[p] = "create_append"
  /\ \E now \in Instants :
       urls' = << URLRecord(shortCode[p], req[p].body.url, FormatRFC3339(now), 0) >> \o urls
  /\ pc' = [pc EXCEPT ![p] = "create_save"]
  /\ UNCHANGED << phase, file, urlMutex, req, locals, resp, history >>

\* build the record with the current time and append it
CreateAppend(p) ==
  /\ pc[p] = "create_append"
  /\ \E now \in Instants :
       urls' = Append(urls, URLRecord(shortCode[p], req[p].body.url, FormatRFC3339(now), 0))
  /\ pc' = [pc EXCEPT ![p] = "create_save"]
  /\ UNCHANGED << phase, file, urlMutex, req, locals, resp, history >>

\* a create that takes the appended record back when saveURLs fails
CreateSaveRollback(p) ==
  /\ pc[p] = "create_save"
  /\ \E outcome \in WriteOutcomes :
       /\ file' = saveURLs(urls, file, outcome).file
       /\ saveErr' = [saveErr EXCEPT ![p] = saveURLs(urls, file, outcome).err]
       /\ failedLast' = saveURLs(urls, file, outcome).err
       /\ written' = IF saveURLs(urls, file, outcome).err THEN written ELSE Written(urls)
       /\ urls' = IF saveURLs(urls, file, outcome).err THEN snap[p] ELSE urls
  /\ pc' = [pc EXCEPT ![p] = "create_respond"]
  /\ UNCHANGED << phase, urlMutex, req, shortCode, drawn, found, targetURL, urlsCopy, idx,
                  count, resp, started, loaded, redirected, failed, acked, refused, snap >>

\* err := saveURLs()
CreateSave(p) ==
  /\ pc[p] = "create_save"
  /\ \E outcome \in WriteOutcomes :
       /\ file' = saveURLs(urls, file, outcome).file
       /\ saveErr' = [saveErr EXCEPT ![p] = saveURLs(urls, file, outcome).err]
       /\ failedLast' = saveURLs(urls, file, outcome).err
       /\ written' = IF saveURLs(urls, file, outcome).err THEN written ELSE Written(urls)
  /\ pc' = [pc EXCEPT ![p] = "create_respond"]
  /\ UNCHANGED << phase, urls, urlMutex, req, shortCode, drawn, found, targetURL, urlsCopy, idx,
                  count, resp, started, loaded, redirected, failed, acked, refused, snap >>

\* a create that answers 201 whether or not saveURLs returned an error
CreateRespondAlways201(p) ==
  /\ pc[p] = "create_respond"
  /\ resp' = [resp EXCEPT ![p] = CreatedResponse(shortCode[p])]
  /\ acked' = Append(acked, << shortCode[p], req[p].body.url >>)
  /\ UNCHANGED refused
  /\ pc' = [pc EXCEPT ![p] = "create_return"]
  /\ UNCHANGED << phase, urls, file, urlMutex, req, locals, started, loaded, redirected,
                  failed, snap, failedLast, written >>

\* write the 500 or the 201 answer
CreateRespond(p) ==
  /\ pc[p] = "create_respond"
  /\ IF saveErr[p]
       THEN /\ resp' = [resp EXCEPT ![p] = writeJSONError("Failed to save URL record", 500)]
            /\ refused' = refused \cup { shortCode[p] }
            /\ UNCHANGED acked
       ELSE /\ resp' = [resp EXCEPT ![p] = CreatedResponse(shortCode[p])]
            /\ acked' = Append(acked, << shortCode[p], req[p].body.url >>)
            /\ UNCHANGED refused
  /\ pc' = [pc EXCEPT ![p] = "create_return"]
  /\ UNCHANGED << phase, urls, file, urlMutex, req, locals, started, loaded, redirected,
                  failed, snap, failedLast, written >>

\* a create that returns without the deferred Unlock
CreateReturnNoUnlock(p) ==
  /\ pc[p] = "create_return"
  /\ urlMutex' = urlMutex
  /\ pc' = [pc EXCEPT ![p] = "idle"]
  /\ Forget(p)
  /\ UNCHANGED << phase, urls, file, started, loaded, redirected, failed, acked,
                  refused, failedLast, written >>

\* return: the deferred urlMutex.Unlock() runs
CreateReturn(p) ==
  /\ pc[p] = "create_return"
  /\ urlMutex' = 0
  /\ pc' = [pc EXCEPT ![p] = "idle"]
  /\ Forget(p)
  /\ UNCHANGED << phase, urls, file, started, loaded, redirected, failed, acked,
                  refused, failedLast, written >>

(* ------------------------------ getURLsHandler ------------------------- *)
\* urlMutex.Lock(); defer urlMutex.Unlock()
ListLock(p) ==
  /\ pc[p] = "list_lock"
  /\ MutexFree(urlMutex)
  /\ urlMutex' = p
  /\ snap' = [snap EXCEPT ![p] = urls]
  /\ pc' = [pc EXCEPT ![p] = "list_copy"]
  /\ UNCHANGED << phase, urls, file, req, locals, resp, started, loaded, redirected,
                  failed, acked, refused, failedLast, written >>

\* a list that reads the collection back from the file
ListCopyFromFile(p) ==
  /\ pc[p] = "list_copy"
  /\ urlsCopy' = [urlsCopy EXCEPT ![p] = IF file.state = "json" THEN Unmarshal(file.body)
                                         ELSE << >>]
  /\ pc' = [pc EXCEPT ![p] = "list_encode"]
  /\ UNCHANGED << phase, urls, file, urlMutex, req, shortCode, drawn, found, targetURL, saveErr,
                  idx, count, resp, history >>

\* urlsCopy := make(...); copy(urlsCopy, urls)
ListCopy(p) ==
  /\ pc[p] = "list_copy"
  /\ urlsCopy' = [urlsCopy EXCEPT ![p] = urls]
  /\ pc' = [pc EXCEPT ![p] = "list_encode"]
  /\ UNCHANGED << phase, urls, file, urlMutex, req, shortCode, drawn, found, targetURL, saveErr,
                  idx, count, resp, history >>

\* json.NewEncoder(w).Encode(urlsCopy)
ListEncode(p) ==
  /\ pc[p] = "list_encode"
  /\ resp' = [resp EXCEPT ![p] = ListResponse(urlsCopy[p])]
  /\ pc' = [pc EXCEPT ![p] = "list_return"]
  /\ UNCHANGED << phase, urls, file, urlMutex, req, locals, history >>

\* return: the deferred urlMutex.Unlock() runs
ListReturn(p) ==
  /\ pc[p] = "list_return"
  /\ urlMutex' = 0
  /\ pc' = [pc EXCEPT ![p] = "idle"]
  /\ Forget(p)
  /\ UNCHANGED << phase, urls, file, started, loaded, redirected, failed, acked,
                  refused, failedLast, written >>

(* ------------------------------ rootHandler: redirect ------------------ *)
\* a redirect that enters its critical section without waiting for the mutex
RedirectLockNoWait(p) ==
  /\ pc[p] = "redirect_lock"
  /\ urlMutex' = p
  /\ snap' = [snap EXCEPT ![p] = urls]
  /\ pc' = [pc EXCEPT ![p] = "redirect_scan"]
  /\ UNCHANGED << phase, urls, file, req, locals, resp, started, loaded, redirected,
                  failed, acked, refused, failedLast, written >>

\* urlMutex.Lock()
RedirectLock(p) ==
  /\ pc[p] = "redirect_lock"
  /\ MutexFree(urlMutex)
  /\ urlMutex' = p
  /\ snap' = [snap EXCEPT ![p] = urls]
  /\ pc' = [pc EXCEPT ![p] = "redirect_scan"]
  /\ UNCHANGED << phase, urls, file, req, locals, resp, started, loaded, redirected,
                  failed, acked, refused, failedLast, written >>

\* the loop over urls up to the first match; urls[i].UsageCount++ begins by
\* reading the count
RedirectScan(p) ==
  /\ pc[p] = "redirect_scan"
  /\ LET i == FirstMatch(urls, shortCode[p])
     IN IF i # 0
          THEN /\ idx' = [idx EXCEPT ![p] = i]
               /\ count' = [count EXCEPT ![p] = urls[i].UsageCount]
               /\ pc' = [pc EXCEPT ![p] = "redirect_incr"]
          ELSE /\ pc' = [pc EXCEPT ![p] = "redirect_unlock"]
               /\ UNCHANGED << idx, count >>
  /\ UNCHANGED << phase, urls, file, urlMutex, req, shortCode, drawn, found, targetURL, saveErr,
                  urlsCopy, resp, history >>

\* an increment that takes the target from the first record instead of the
\* record whose count it stored
RedirectIncrementWrongTarget(p) ==
  /\ pc[p] = "redirect_incr"
  /\ urls' = StoreUsage(urls, idx[p], count[p] + 1)
  /\ targetURL' = [targetURL EXCEPT ![p] = urls[1].LongURL]
  /\ found' = [found EXCEPT ![p] = TRUE]
  /\ pc' = [pc EXCEPT ![p] = "redirect_save"]
  /\ UNCHANGED << phase, file, urlMutex, req, shortCode, drawn, saveErr, urlsCopy, idx, count,
                  resp, history >>

\* urls[i].UsageCount++ stores the count; targetURL = urls[i].LongURL; found = true
RedirectIncrement(p) ==
  /\ pc[p] = "redirect_incr"
  /\ urls' = StoreUsage(urls, idx[p], count[p] + 1)
  /\ targetURL' = [targetURL EXCEPT ![p] = urls[idx[p]].LongURL]
  /\ found' = [found EXCEPT ![p] = TRUE]
  /\ pc' = [pc EXCEPT ![p] = "redirect_save"]
  /\ UNCHANGED << phase, file, urlMutex, req, shortCode, drawn, saveErr, urlsCopy, idx, count,
                  resp, history >>

\* a redirect that writes only the record it incremented
RedirectSaveOneRecord(p) ==
  /\ pc[p] = "redirect_save"
  /\ \E outcome \in WriteOutcomes :
       /\ file' = saveURLs(<< urls[idx[p]] >>, file, outcome).file
       /\ saveErr' = [saveErr EXCEPT ![p] = saveURLs(urls, file, outcome).err]
       /\ failedLast' = saveURLs(urls, file, outcome).err
       /\ written' = IF saveURLs(urls, file, outcome).err THEN written ELSE Written(urls)
  /\ pc' = [pc EXCEPT ![p] = "redirect_unlock"]
  /\ UNCHANGED << phase, urls, urlMutex, req, shortCode, drawn, found, targetURL, urlsCopy, idx,
                  count, resp, started, loaded, redirected, failed, acked, refused, snap >>

\* err := saveURLs() inside the loop
RedirectSave(p) ==
  /\ pc[p] = "redirect_save"
  /\ \E outcome \in WriteOutcomes :
       /\ file' = saveURLs(urls, file, outcome).file
       /\ saveErr' = [saveErr EXCEPT ![p] = saveURLs(urls, file, outcome).err]
       /\ failedLast' = saveURLs(urls, file, outcome).err
       /\ written' = IF saveURLs(urls, file, outcome).err THEN written ELSE Written(urls)
  /\ pc' = [pc EXCEPT ![p] = "redirect_unlock"]
  /\ UNCHANGED << phase, urls, urlMutex, req, shortCode, drawn, found, targetURL, urlsCopy, idx,
                  count, resp, started, loaded, redirected, failed, acked, refused, snap >>

\* urlMutex.Unlock(), on the error path and after the loop
RedirectUnlock(p) ==
  /\ pc[p] = "redirect_unlock"
  /\ urlMutex' = 0
  /\ snap' = [snap EXCEPT ![p] = << >>]
  /\ pc' = [pc EXCEPT ![p] = IF saveErr[p] \/ found[p] THEN "redirect_respond" ELSE "static"]
  /\ UNCHANGED << phase, urls, file, req, locals, resp, started, loaded, redirected,
                  failed, acked, refused, failedLast, written >>

\* a redirect whose error path lacks the return and goes on to http.Redirect
RedirectRespondNoReturn(p) ==
  /\ pc[p] = "redirect_respond"
  /\ resp' = [resp EXCEPT ![p] = Redirect(targetURL[p])]
  /\ redirected' = [redirected EXCEPT ![shortCode[p]] = @ + 1]
  /\ pc' = [pc EXCEPT ![p] = "return"]
  /\ UNCHANGED << phase, urls, file, urlMutex, req, locals, started, loaded, failed,
                  acked, refused, snap, failedLast, written >>

\* writeJSONError(... 500) on the error path, http.Redirect when found
RedirectRespond(p) ==
  /\ pc[p] = "redirect_respond"
  /\ IF saveErr[p]
       THEN /\ resp' = [resp EXCEPT ![p] = writeJSONError("Failed to update URL data", 500)]
            /\ failed' = [failed EXCEPT ![shortCode[p]] = @ + 1]
            /\ UNCHANGED redirected
       ELSE /\ resp' = [resp EXCEPT ![p] = Redirect(targetURL[p])]
            /\ redirected' = [redirected EXCEPT ![shortCode[p]] = @ + 1]
            /\ UNCHANGED failed
  /\ pc' = [pc EXCEPT ![p] = "return"]
  /\ UNCHANGED << phase, urls, file, urlMutex, req, locals, started, loaded, acked,
                  refused, snap, failedLast, written >>

\* staticFileServer.ServeHTTP(w, r)
StaticServe(p) ==
  /\ pc[p] = "static"
  /\ resp' = [resp EXCEPT ![p] = ServeStatic(req[p].path)]
  /\ pc' = [pc EXCEPT ![p] = "return"]
  /\ UNCHANGED << phase, urls, file, urlMutex, req, locals, history >>

\* rootHandler returns after an answer written without the mutex held
HandlerReturn(p) ==
  /\ pc[p] = "return"
  /\ pc' = [pc EXCEPT ![p] = "idle"]
  /\ Forget(p)
  /\ UNCHANGED << phase, urls, file, urlMutex, started, loaded, redirected, failed,
                  acked, refused, failedLast, written >>

(* ------------------------------ specification -------------------------- *)
Next ==
  \/ Load
  \/ \E p \in Procs : Route(p)
  \/ \E p \in Procs : CreateValidate(p)
  \/ \E p \in Procs : CreateLock(p)
  \/ \E p \in Procs : CreateDraw(p)
  \/ \E p \in Procs : CreateAppend(p)
  \/ \E p \in Procs : CreateSave(p)
  \/ \E p \in Procs : CreateRespond(p)
  \/ \E p \in Procs : CreateReturn(p)
  \/ \E p \in Procs : ListLock(p)
  \/ \E p \in Procs : ListCopy(p)
  \/ \E p \in Procs : ListEncode(p)
  \/ \E p \in Procs : ListReturn(p)
  \/ \E p \in Procs : RedirectLock(p)
  \/ \E p \in Procs : RedirectScan(p)
  \/ \E p \in Procs : RedirectIncrement(p)
  \/ \E p \in Procs : RedirectSave(p)
  \/ \E p \in Procs : RedirectUnlock(p)
  \/ \E p \in Procs : RedirectRespond(p)
  \/ \E p \in Procs : StaticServe(p)
  \/ \E p \in Procs : HandlerReturn(p)

Spec == Init /\ [][Next]_vars

(* ------------------------------ fairness ------------------------------- *)
\* a step of the handler goroutine p: every statement after the router has
\* started the handler (the arrival of a request is not a step of the program)
HandlerStep(p) ==
  \/ CreateValidate(p) \/ CreateLock(p) \/ CreateDraw(p) \/ CreateAppend(p)
  \/ CreateSave(p) \/ CreateRespond(p) \/ CreateReturn(p)
  \/ ListLock(p) \/ ListCopy(p) \/ ListEncode(p) \/ ListReturn(p)
  \/ RedirectLock(p) \/ RedirectScan(p) \/ RedirectIncrement(p) \/ RedirectSave(p)
  \/ RedirectUnlock(p) \/ RedirectRespond(p) \/ StaticServe(p) \/ HandlerReturn(p)

\* urlMutex.Lock() returning in p
LockStep(p) == CreateLock(p) \/ ListLock(p) \/ RedirectLock(p)

\* an iteration of the generator loop that draws a pair no record has
FreshDraw(p) == CreateDraw(p) /\ pc'[p] = "create_append"

\* the scheduler runs every runnable goroutine (weak fairness of each
\* goroutine's steps and of init), sync.Mutex hands the mutex to every waiter
\* (starvation mode: strong fairness of Lock), and rand.Intn draws every pair
\* with positive probability (a pair that is free at every iteration is drawn)
Fairness ==
  /\ WF_vars(Load)
  /\ \A p \in Procs :
       /\ WF_vars(HandlerStep(p))
       /\ SF_vars(LockStep(p))
       /\ WF_vars(FreshDraw(p))

FairSpec == Spec /\ Fairness

(* ------------------------------ restart -------------------------------- *)
\* the process ends (killed, or exited by log.Fatalf) and is started again:
\* urls, the mutex, the goroutines and their requests are gone, the file stays
Restart ==
  /\ phase \in { "serving", "fatal" }
  /\ phase' = "init"
  /\ urls' = << >>
  /\ urlMutex' = 0
  /\ pc' = [p \in Procs |-> "idle"]
  /\ req' = [p \in Procs |-> NoRequest]
  /\ shortCode' = [p \in Procs |-> ""]
  /\ drawn' = [p \in Procs |-> ""]
  /\ found' = [p \in Procs |-> FALSE]
  /\ targetURL' = [p \in Procs |-> << >>]
  /\ saveErr' = [p \in Procs |-> FALSE]
  /\ urlsCopy' = [p \in Procs |-> << >>]
  /\ idx' = [p \in Procs |-> 0]
  /\ count' = [p \in Procs |-> 0]
  /\ resp' = [p \in Procs |-> NoResponse]
  /\ loaded' = << >>
  /\ redirected' = [c \in CodeUniverse |-> 0]
  /\ failed' = [c \in CodeUniverse |-> 0]
  /\ snap' = [p \in Procs |-> << >>]
  /\ failedLast' = FALSE
  /\ UNCHANGED << file, started, acked, refused, written >>

NextRestart == Next \/ Restart

SpecRestart == Init /\ [][NextRestart]_vars

(* ------------------------------ properties ----------------------------- *)
\* the statements at which the code holds urlMutex
CriticalPCs ==
  { "create_draw", "create_append", "create_save", "create_respond", "create_return",
    "list_copy", "list_encode", "list_return",
    "redirect_scan", "redirect_incr", "redirect_save", "redirect_unlock" }

\* the usage count record i had when it was loaded, 0 for a record made by create
InitialUsage(i) == IF i <= Len(loaded) THEN loaded[i].UsageCount ELSE 0

\* requests whose lookup matched code c, whose increment is stored and which
\* are not answered yet
InFlight(c) ==
  Cardinality({ p \in Procs : /\ found[p]
                              /\ shortCode[p] = c
                              /\ pc[p] \in { "redirect_save", "redirect_unlock",
                                             "redirect_respond" } })

\* C1: no two records of urls have the same short_code, and no two 201
\* answers carry the same short_code
C1_UniqueShortCodes ==
  /\ \A i, j \in 1..Len(urls) : i # j => urls[i].ShortCode # urls[j].ShortCode
  /\ \A i, j \in 1..Len(acked) : i # j => acked[i][1] # acked[j][1]

\* two creates submitted concurrently, both past validation, one answered 201
C1_Witness ==
  /\ Len(urls) >= 2
  /\ Len(acked) >= 1
  /\ \E p, q \in Procs : pc[p] = "create_return" /\ pc[q] = "create_lock"

\* C2: a creator whose scan found its code absent and that has not appended
\* yet holds the mutex, sees the collection it locked, still finds the code
\* absent, and no other request is inside a critical section
C2_CheckThenAppendAtomic ==
  \A p \in Procs :
    pc[p] = "create_append" =>
      /\ urlMutex = p
      /\ urls = snap[p]
      /\ \A i \in 1..Len(urls) : urls[i].ShortCode # shortCode[p]
      /\ \A q \in Procs \ { p } : pc[q] \notin CriticalPCs

\* a creator between its scan and its append while another request waits for
\* the mutex
C2_Witness ==
  \E p, q \in Procs :
    /\ pc[p] = "create_append"
    /\ pc[q] \in { "create_lock", "redirect_lock" }
    /\ Len(urls) >= 1

\* C3: every record's usage_count is its initial value plus the number of
\* requests whose lookup matched its short code (answered or still in flight
\* after the increment): no increment is lost and none lands on another record
C3_NoLostUpdate ==
  \A i \in 1..Len(urls) :
    urls[i].UsageCount =
      InitialUsage(i) + redirected[urls[i].ShortCode] + failed[urls[i].ShortCode]
        + InFlight(urls[i].ShortCode)

\* two redirects through the same code have run concurrently: the second is
\* answered while the first has not returned yet
C3_Witness ==
  \E i \in 1..Len(urls) :
    /\ urls[i].UsageCount = InitialUsage(i) + 2
    /\ redirected[urls[i].ShortCode] + failed[urls[i].ShortCode] = 2
    /\ \A p \in Procs : pc[p] = "return" /\ shortCode[p] = urls[i].ShortCode

\* C4 as stated: once no matched request is in flight, usage_count is the
\* initial value plus the number of 302 answers, so a request answered with an
\* error has not incremented it
C4_CountsOnly302 ==
  \A i \in 1..Len(urls) :
    /\ urls[i].UsageCount >= 0
    /\ InFlight(urls[i].ShortCode) = 0 =>
         urls[i].UsageCount = InitialUsage(i) + redirected[urls[i].ShortCode]

\* C4 amended: usage_count is non-negative, never below the initial value plus
\* the number of 302 answers, and once no matched request is in flight it is
\* the initial value plus the number of requests whose lookup matched the
\* record, those answered 302 and those answered 500 after a failed write
C4_CountsMatchedRequests ==
  \A i \in 1..Len(urls) :
    /\ urls[i].UsageCount >= 0
    /\ urls[i].UsageCount >= InitialUsage(i) + redirected[urls[i].ShortCode]
    /\ InFlight(urls[i].ShortCode) = 0 =>
         urls[i].UsageCount =
           InitialUsage(i) + redirected[urls[i].ShortCode] + failed[urls[i].ShortCode]

\* a record that was redirected to once with a 302 and once with a 500
C4_Witness ==
  \E i \in 1..Len(urls) :
    /\ redirected[urls[i].ShortCode] = 1
    /\ failed[urls[i].ShortCode] = 1
    /\ InFlight(urls[i].ShortCode) = 0
    /\ urls[i].UsageCount = InitialUsage(i) + 2

\* an absolute URL: it parses and has both a scheme and a host
IsAbsoluteURL(u) ==
  /\ ParseRequestURI(u).err = ""
  /\ ParseRequestURI(u).Scheme # << >>
  /\ ParseRequestURI(u).Host # << >>

\* C5: a create with an absolute URL whose persist succeeded has answered 201
\* with an adjective-hyphen-noun code and the collection is the one it locked
\* plus one record with that code, the submitted URL and usage_count 0; a list
\* answers the collection as it is, which holds every acknowledged code with
\* its URL
C5_CreateSuccess ==
  /\ \A p \in Procs :
       (pc[p] = "create_return" /\ IsAbsoluteURL(req[p].body.url) /\ ~saveErr[p]) =>
         /\ resp[p].status = 201
         /\ \E a \in 1..Len(adjectives), n \in 1..Len(nouns) :
              resp[p].short_code = adjectives[a] \o "-" \o nouns[n]
         /\ Len(urls) = Len(snap[p]) + 1
         /\ SubSeq(urls, 1, Len(snap[p])) = snap[p]
         /\ urls[Len(urls)].ShortCode = resp[p].short_code
         /\ urls[Len(urls)].LongURL = req[p].body.url
         /\ urls[Len(urls)].UsageCount = 0
  /\ \A q \in Procs : pc[q] = "list_return" => resp[q].list = MarshalIndent(urls)
  /\ \A k \in 1..Len(acked) :
       \E i \in 1..Len(urls) :
         urls[i].ShortCode = acked[k][1] /\ urls[i].LongURL = acked[k][2]

\* a list answered after a create was acknowledged returns the new record
C5_Witness ==
  \E q \in Procs :
    /\ pc[q] = "list_return"
    /\ Len(acked) >= 1
    /\ IsAbsoluteURL(acked[1][2])
    /\ \E i \in 1..Len(resp[q].list) :
         /\ i > Len(loaded)
         /\ resp[q].list[i].short_code = acked[1][1]
         /\ resp[q].list[i].long_url = acked[1][2]
         /\ resp[q].list[i].usage_count = 0

\* C6: no record made by create has a long_url without a scheme or a host
C6_StoredURLsAreAbsolute ==
  \A i \in 1..Len(urls) : i > Len(loaded) => IsAbsoluteURL(urls[i].LongURL)

\* whether one of the three checks of create fails
InvalidBody(body) ==
  \/ body.malformed
  \/ body.url = << >>
  \/ ParseRequestURI(body.url).err # ""

\* the message the order malformed body, empty url, failed parse gives
FirstFailure(body) ==
  CASE body.malformed -> "Invalid request body"
    [] ~body.malformed /\ body.url = << >> -> "URL is required"
    [] OTHER -> "Invalid URL format"

\* C7: the step that takes a create with an invalid body out of validation
\* answers 400 with the message of the first failing check, does not take the
\* mutex and changes neither urls nor the file
C7_ValidationFailure ==
  [][\A p \in Procs :
       (pc[p] = "create" /\ pc'[p] # "create" /\ InvalidBody(req[p].body)) =>
         /\ pc'[p] = "return"
         /\ resp'[p] = [NoResponse EXCEPT !.status = 400, !.error = FirstFailure(req[p].body)]
         /\ urlMutex # p
         /\ urlMutex' = urlMutex
         /\ urls' = urls
         /\ file' = file]_vars

\* a create with an empty url is answered 400 "URL is required" while the
\* store holds a record
C7_Witness ==
  \E p \in Procs :
    /\ pc[p] = "return"
    /\ req[p].method = "POST"
    /\ req[p].path = ApiPrefix
    /\ req[p].body = JSONBody(<< >>)
    /\ resp[p].status = 400
    /\ resp[p].error = "URL is required"
    /\ Len(urls) >= 1

\* C8 as stated: whenever no request holds the mutex the file holds the
\* in-memory collection
C8_FileMirrorsMemory ==
  (phase = "serving" /\ urlMutex = 0) => file = FileJSON(MarshalIndent(urls))

\* C8 amended: whenever no request holds the mutex and the most recent write
\* of the file did not fail, the file holds the in-memory collection
C8_FileMirrorsMemoryAfterGoodWrite ==
  (phase = "serving" /\ urlMutex = 0 /\ ~failedLast) => file = FileJSON(MarshalIndent(urls))

\* a create and a redirect have finished, the last write succeeded, an
\* earlier one had failed
C8_Witness ==
  /\ phase = "serving"
  /\ urlMutex = 0
  /\ ~failedLast
  /\ refused # { }
  /\ Len(urls) > Len(loaded)
  /\ \E i \in 1..Len(urls) : urls[i].UsageCount > InitialUsage(i)

\* C9: a request whose saveURLs failed is on the error path only; once it has
\* answered, the answer is a 500 with an error message, without short_code,
\* Location or list, and it never reaches the static fallback
C9_WriteFailureAnswers500 ==
  \A p \in Procs :
    saveErr[p] =>
      /\ pc[p] \in { "create_respond", "create_return", "redirect_unlock",
                     "redirect_respond", "return" }
      /\ pc[p] \in { "create_respond", "redirect_unlock", "redirect_respond" } =>
           resp[p] = NoResponse
      /\ pc[p] \in { "create_return", "return" } =>
           /\ resp[p].status = 500
           /\ resp[p].error # ""
           /\ resp[p].short_code = ""
           /\ resp[p].location = << >>
           /\ resp[p].list = << >>

\* a matched redirect answered 500 after a create was answered 500
C9_Witness ==
  /\ refused # { }
  /\ \E p \in Procs :
       /\ pc[p] = "return"
       /\ saveErr[p]
       /\ found[p]
       /\ resp[p].status = 500

\* whether this step is the saveURLs call of p and it returns an error
SaveFails(p) ==
  /\ pc[p] \in { "create_save", "redirect_save" }
  /\ pc'[p] # pc[p]
  /\ saveErr'[p]

\* the mutation p made before its saveURLs call is in recs
MutationIn(p, recs) ==
  IF pc[p] = "create_save"
    THEN /\ Len(recs) = Len(snap[p]) + 1
         /\ recs[Len(recs)].ShortCode = shortCode[p]
         /\ recs[Len(recs)].UsageCount = 0
    ELSE recs[idx[p]].UsageCount = count[p] + 1

\* C10 as stated: a failed write leaves the mutation in memory and the
\* previous contents in the file, and a code whose create was answered 500
\* stays in the collection
C10_FailedWriteKeepsFile ==
  [][/\ \A p \in Procs :
          SaveFails(p) => (urls' = urls /\ MutationIn(p, urls') /\ file' = file)
     /\ \A c \in refused' : FirstMatch(urls', c) # 0]_vars

\* C10 amended: a failed write leaves the mutation in memory, and the file
\* either keeps its previous contents or is left truncated; a code whose
\* create was answered 500 stays in the collection, so list returns it and a
\* redirect through it matches
C10_FailedWriteKeepsMemory ==
  [][/\ \A p \in Procs :
          SaveFails(p) =>
            (urls' = urls /\ MutationIn(p, urls') /\ file' \in { file, FileTorn })
     /\ \A c \in refused' : FirstMatch(urls', c) # 0]_vars

\* a redirect through a code whose create was answered 500 is answered 302
C10_Witness ==
  \E p \in Procs :
    /\ pc[p] = "return"
    /\ shortCode[p] \in refused
    /\ resp[p].status = 302

(* ------------------------------ C11 ------------------------------------ *)
\* the short code a request asks for: its path without the leading slash
RequestedCode(p) == Join(TrimPrefix(req[p].path, << "/" >>))

\* C11: a request for /c, c the short_code of a stored record, whose write
\* succeeds is answered 302 with Location equal to the long_url of the record
\* whose usage_count it incremented; from the lookup to the write the request
\* holds the mutex, the record found is still at its index, its count is the
\* count read (before the store) and one more (after it), and nothing else in
\* the collection moved
C11_RedirectToIncremented ==
  \A p \in Procs :
    /\ pc[p] \in { "redirect_incr", "redirect_save" } =>
         /\ urlMutex = p
         /\ idx[p] \in 1..Len(urls)
         /\ idx[p] = FirstMatch(urls, RequestedCode(p))
         /\ urls[idx[p]].ShortCode = RequestedCode(p)
         /\ Len(urls) = Len(snap[p])
         /\ \A i \in 1..Len(urls) : i # idx[p] => urls[i] = snap[p][i]
         /\ snap[p][idx[p]].UsageCount = count[p]
    /\ pc[p] = "redirect_incr" => urls = snap[p]
    /\ pc[p] = "redirect_save" =>
         /\ urls[idx[p]].UsageCount = count[p] + 1
         /\ targetURL[p] = urls[idx[p]].LongURL
    /\ (pc[p] = "return" /\ found[p] /\ ~saveErr[p]) =>
         /\ resp[p].status = 302
         /\ idx[p] \in 1..Len(urls)
         /\ urls[idx[p]].ShortCode = RequestedCode(p)
         /\ resp[p].location = urls[idx[p]].LongURL
         /\ urls[idx[p]].UsageCount > count[p]
    /\ (pc[p] = "return" /\ resp[p].status = 302) => (found[p] /\ ~saveErr[p])

\* a 302 for the second record of a collection whose two long_urls differ
C11_Witness ==
  \E p \in Procs :
    /\ pc[p] = "return"
    /\ resp[p].status = 302
    /\ idx[p] = 2
    /\ urls[1].LongURL # urls[2].LongURL
    /\ resp[p].location = urls[2].LongURL

(* ------------------------------ C12 ------------------------------------ *)
\* no stored record has the short code
NoRecordHas(code) == \A i \in 1..Len(urls) : urls[i].ShortCode # code

\* the steps of rootHandler after a lookup that matched nothing: the end of the
\* scan, the Unlock after the loop, and the static file server
UnmatchedStep(p) ==
  /\ pc'[p] # pc[p]
  /\ \/ pc[p] = "redirect_scan" /\ NoRecordHas(RequestedCode(p))
     \/ pc[p] = "redirect_unlock" /\ ~found[p] /\ ~saveErr[p]
     \/ pc[p] = "static"

\* C12: a request for a path outside the API prefix that matches no stored
\* short_code goes from the scan to the Unlock to the static file server (404
\* when the path names no asset); none of these steps changes a record, calls
\* saveURLs, or changes the collection or the file
C12_UnmatchedChangesNothing ==
  [][ \A p \in Procs :
        UnmatchedStep(p) =>
          /\ ~HasPrefix(req[p].path, ApiPrefix)
          /\ pc[p] = "redirect_scan" => pc'[p] = "redirect_unlock"
          /\ pc[p] = "redirect_unlock" => pc'[p] = "static"
          /\ pc[p] = "static" =>
               /\ pc'[p] = "return"
               /\ resp'[p].status = IF req[p].path = << "/" >> THEN 200 ELSE 404
               /\ resp'[p].location = << >>
          /\ found'[p] = FALSE
          /\ urls' = urls
          /\ file' = file
          /\ failedLast' = failedLast
    ]_vars

\* a 404 for a code that no record of a non-empty collection has
C12_Witness ==
  \E p \in Procs :
    /\ pc[p] = "return"
    /\ resp[p].status = 404
    /\ RequestedCode(p) = "nope"
    /\ Len(urls) >= 1
    /\ NoRecordHas("nope")

(* ------------------------------ C13 ------------------------------------ *)
\* the positions at which a handler reads urls, writes urls, or writes the file
ReadingPCs == { "create_draw", "list_copy", "redirect_scan", "redirect_incr",
                "create_save", "redirect_save" }
WritingPCs == { "create_append", "redirect_incr", "create_save", "redirect_save" }

\* the positions between a handler's first change of urls and the end of its
\* saveURLs: the collection is appended to or incremented but not yet written
MidMutationPCs == { "create_save", "redirect_save" }

\* at most one request is inside a critical section, and a request is inside
\* one exactly when it holds the mutex
OneInCriticalSection ==
  /\ \A p \in Procs : (pc[p] \in CriticalPCs) <=> (urlMutex = p)
  /\ \A p, q \in Procs :
       (pc[p] \in CriticalPCs /\ pc[q] \in CriticalPCs) => p = q
  /\ ReadingPCs \cup WritingPCs \subseteq CriticalPCs
  /\ \A p, q \in Procs :
       (p # q /\ pc[p] \in ReadingPCs) => pc[q] \notin MidMutationPCs \cup WritingPCs

\* urls and the file change only in a step of the request that holds the mutex
\* (or in Load, before any request): while a request holds the mutex no step of
\* another request changes them
ChangesUnderLock ==
  /\ (urls' # urls \/ file' # file) =>
        \/ phase = "init"
        \/ \E p \in Procs : urlMutex = p /\ pc[p] \in WritingPCs /\ pc'[p] # pc[p]
  /\ \A p \in Procs :
       (urlMutex = p /\ pc'[p] = pc[p]) => (urls' = urls /\ file' = file)

\* C13: mutual exclusion of the record store: at most one request at a time is
\* inside a critical section, every read and write of urls and every write of
\* the file by create, list and redirect is made by the request that holds
\* urlMutex, and no request reads urls while another is between its mutation
\* and the end of its write
C13_MutualExclusion ==
  [][OneInCriticalSection /\ OneInCriticalSection' /\ ChangesUnderLock]_vars

\* a request between its append and its write holds the mutex while another
\* waits for it
C13_Witness ==
  \E p, q \in Procs :
    /\ p # q
    /\ pc[p] = "create_save"
    /\ urlMutex = p
    /\ pc[q] \in { "create_lock", "list_lock", "redirect_lock" }

(* ------------------------------ C14 ------------------------------------ *)
\* the positions at which a handler writes its response: json.NewEncoder(w)
\* .Encode and writeJSONError in createURLHandler and getURLsHandler,
\* writeJSONError and http.Redirect in rootHandler, the static file server
RespondingPCs == { "create_respond", "list_encode", "redirect_respond", "static" }

\* C14: the mutex is never held across network I/O: no request holds urlMutex
\* at a position where it writes its response, nor still holds it once the
\* response is written
C14_NoLockWhileResponding ==
  \A p \in Procs :
    urlMutex = p => (pc[p] \notin RespondingPCs /\ resp[p] = NoResponse)

(* ------------------------------ C15 ------------------------------------ *)
\* every pair the generator can draw is the short code of a record
Saturated == \A c \in Codes : ~IsUnique(c, urls)

\* a create is in its generator loop and no pair is free
DrawingSaturated == \E q \in Procs : pc[q] = "create_draw" /\ Saturated

\* C15 as stated: under fair scheduling every request the router has started
\* eventually returns, its response written and the mutex released, in every
\* reachable state of the store
C15_EveryRequestReturns ==
  \A p \in Procs : (pc[p] # "idle") ~> (pc[p] = "idle")

\* C15, amended: under fair scheduling every request the router has started
\* eventually returns, its response written and the mutex released, unless a
\* create reaches its generator loop when every pair is in use
C15_ReturnsUnlessSaturated ==
  \A p \in Procs : (pc[p] # "idle") ~> (pc[p] = "idle" \/ DrawingSaturated)

\* a request waits for the mutex while a create that holds it draws a pair in
\* a store with a free pair
C15_Witness ==
  \E p, q \in Procs :
    /\ pc[p] = "create_draw"
    /\ ~Saturated
    /\ Len(urls) >= 1
    /\ pc[q] \in { "create_lock", "list_lock", "redirect_lock" }

(* ------------------------------ C16 ------------------------------------ *)
\* init() has just loaded the file with success
LoadSucceeds == phase = "init" /\ phase' = "serving"

\* C16: when saveURLs has written the collection with success and the process
\* then starts again and loads the file, the collection loaded is the one
\* written: as many records, in the same order, each with the same short_code,
\* long_url, created_at and usage_count
C16_RoundTrip ==
  [][ (LoadSucceeds /\ written.ok) =>
        /\ Len(urls') = Len(written.recs)
        /\ \A i \in 1..Len(written.recs) :
             /\ urls'[i].ShortCode = written.recs[i].ShortCode
             /\ urls'[i].LongURL = written.recs[i].LongURL
             /\ urls'[i].CreatedAt = written.recs[i].CreatedAt
             /\ urls'[i].UsageCount = written.recs[i].UsageCount
        /\ urls' = written.recs
    ]_vars

\* a restarted process serves the two records, one of them used, that the
\* process before it wrote
C16_Witness ==
  /\ phase = "serving"
  /\ written.ok
  /\ Len(loaded) = 2
  /\ loaded = written.recs
  /\ urls = loaded
  /\ \E i \in 1..2 : loaded[i].UsageCount >= 1

(* ------------------------------ C17 ------------------------------------ *)
\* record a and record b differ at most in UsageCount
SameButUsage(a, b) ==
  /\ a.ShortCode = b.ShortCode
  /\ a.LongURL = b.LongURL
  /\ a.CreatedAt = b.CreatedAt

\* earlier is, ignoring usage_count, a prefix of later
PrefixButUsage(earlier, later) ==
  /\ Len(earlier) <= Len(later)
  /\ \A i \in 1..Len(earlier) : SameButUsage(earlier[i], later[i])

\* C17: the collection is append-only: no step removes a record, changes a
\* record's short_code, long_url or created_at, or changes the order of the
\* records; a step that adds a record is the append of a create, adds one
\* record, at the end, and changes no other; so the collection before a step
\* is, ignoring usage_count, a prefix of the collection after it, and the
\* collection loaded at start is such a prefix of every later collection
C17_AppendOnly ==
  [][ /\ PrefixButUsage(urls, urls')
      /\ \A i \in 1..Len(urls) : urls'[i].UsageCount >= urls[i].UsageCount
      /\ (phase = "serving" /\ Len(urls') # Len(urls)) =>
           \E p \in Procs :
             /\ pc[p] = "create_append"
             /\ pc'[p] = "create_save"
             /\ Len(urls') = Len(urls) + 1
             /\ urls'[Len(urls')].ShortCode = shortCode[p]
             /\ urls'[Len(urls')].LongURL = req[p].body.url
             /\ urls'[Len(urls')].UsageCount = 0
             /\ \A i \in 1..Len(urls) : urls'[i] = urls[i]
      /\ PrefixButUsage(loaded', urls')
    ]_vars

\* a create has appended after the record loaded at start, and a redirect has
\* incremented that record
C17_Witness ==
  /\ Len(loaded) = 1
  /\ Len(urls) = 2
  /\ urls[1].UsageCount > loaded[1].UsageCount
  /\ SameButUsage(urls[1], loaded[1])

(* ------------------------------ C18 ------------------------------------ *)
\* the positions of the short-code lookup and of the static file server
LookupPCs == { "redirect_lock", "redirect_scan", "redirect_incr", "redirect_save",
               "redirect_unlock", "redirect_respond", "static" }
ListPCs == { "list_lock", "list_copy", "list_encode", "list_return" }
CreatePCs == { "create", "create_lock", "create_draw", "create_append", "create_save",
               "create_respond", "create_return" }

\* a request under the API prefix is in getURLsHandler (GET), in
\* createURLHandler or answered 400 by it (POST), or answered 405 by the
\* router; it is never in the lookup or the static file server, it has found
\* no record, and a record named like the prefix has never been counted
ApiRequestsStayInApi ==
  /\ \A p \in Procs :
       HasPrefix(req[p].path, ApiPrefix) =>
         /\ pc[p] \notin LookupPCs
         /\ req[p].method = "GET" => pc[p] \in ListPCs
         /\ req[p].method = "POST" =>
              /\ pc[p] \in CreatePCs \cup { "return" }
              /\ pc[p] = "return" => resp[p].status = 400
         /\ req[p].method \notin { "GET", "POST" } =>
              /\ pc[p] = "return"
              /\ resp[p] = writeJSONError("Method Not Allowed", 405)
         /\ ~found[p]
         /\ idx[p] = 0
         /\ resp[p].status \notin { 302, 404 }
  /\ \A i \in 1..Len(urls) :
       urls[i].ShortCode = Join(TrimPrefix(ApiPrefix, << "/" >>)) =>
         urls[i].UsageCount = InitialUsage(i)

\* a step of a request answered 405
Step405(p) ==
  /\ pc'[p] # pc[p]
  /\ \/ pc'[p] = "return" /\ resp'[p].status = 405
     \/ pc[p] = "return" /\ resp[p].status = 405

\* C18: routing is in strict priority order: a request whose path starts with
\* the API prefix is handled as list (GET), create (POST) or answered 405 (any
\* other method) and never reaches the short-code lookup or the static file
\* server, also when a stored record's short_code is the path without its
\* leading slash; the steps of a request answered 405 change neither the
\* collection nor the file
C18_ApiPrefixFirst ==
  [][ /\ ApiRequestsStayInApi
      /\ ApiRequestsStayInApi'
      /\ \A p \in Procs :
           Step405(p) => (urls' = urls /\ file' = file /\ failedLast' = failedLast)
    ]_vars

\* a 405 for the API path while a record named like the path is stored
C18_Witness ==
  \E p \in Procs :
    /\ pc[p] = "return"
    /\ req[p].path = ApiPrefix
    /\ resp[p].status = 405
    /\ \E i \in 1..Len(urls) : urls[i].ShortCode = RequestedCode(p)

(* ------------------------------ C19 ------------------------------------ *)
\* the copy and the answer of a list are the collection as it was when the
\* list took the mutex, which is the collection as it is: every record, in the
\* order of the collection, with its current fields, whatever the file holds
ListAnswersCollection ==
  \A p \in Procs :
    /\ pc[p] \in { "list_copy", "list_encode", "list_return" } =>
         (urlMutex = p /\ urls = snap[p])
    /\ pc[p] \in { "list_encode", "list_return" } => urlsCopy[p] = urls
    /\ pc[p] = "list_return" =>
         /\ resp[p].status = 200
         /\ Len(resp[p].list) = Len(urls)
         /\ \A i \in 1..Len(urls) :
              /\ resp[p].list[i].short_code = urls[i].ShortCode
              /\ resp[p].list[i].long_url = urls[i].LongURL
              /\ resp[p].list[i].created_at = urls[i].CreatedAt
              /\ resp[p].list[i].usage_count = urls[i].UsageCount

\* C19: list answers 200 with a copy of the whole collection as it is at one
\* instant while the list holds the mutex, every record in insertion order with
\* its current fields; no step of a list changes the collection, writes the
\* file or calls saveURLs, and the answer is the collection in memory also when
\* the file has diverged from it
C19_ListIsSnapshot ==
  [][ /\ ListAnswersCollection
      /\ ListAnswersCollection'
      /\ \A p \in Procs :
           (pc[p] \in ListPCs /\ pc'[p] # pc[p]) =>
             /\ urls' = urls
             /\ file' = file
             /\ failedLast' = failedLast
             /\ written' = written
    ]_vars

\* a list answers the two records in memory while the file holds something else
C19_Witness ==
  \E p \in Procs :
    /\ pc[p] = "list_return"
    /\ Len(resp[p].list) = 2
    /\ file # FileJSON(MarshalIndent(urls))

(* ------------------------------ C20 ------------------------------------ *)
\* while init() has not finished with success no request has been started,
\* no goroutine handles one, and the collection is empty
OnlyServingHandles ==
  phase # "serving" =>
    /\ started = 0
    /\ urlMutex = 0
    /\ urls = << >>
    /\ \A p \in Procs : pc[p] = "idle" /\ req[p] = NoRequest /\ resp[p] = NoResponse

\* C20: no request is handled before init() has finished with success: a
\* request is started only in a serving process; when the file is absent and
\* init() succeeds the file holds [] and the collection is empty, and when the
\* file is there the collection is what the file holds; a file that cannot be
\* parsed ends the process, and a process ended by log.Fatalf takes no further
\* step, so it never serves
C20_LoadBeforeServing ==
  [][ /\ OnlyServingHandles
      /\ OnlyServingHandles'
      /\ phase' # phase => phase = "init"
      /\ phase # "fatal"
      /\ started' # started => (phase = "serving" /\ phase' = "serving")
      /\ LoadSucceeds =>
           /\ file.state # "torn"
           /\ file.state = "absent" => (file' = FileJSON(<< >>) /\ urls' = << >>)
           /\ file.state = "json" => (file' = file /\ urls' = Unmarshal(file.body))
      /\ (phase = "init" /\ file.state = "torn") => phase' = "fatal"
    ]_vars

\* the process has ended on a file it could not parse
C20_Witness ==
  /\ phase = "fatal"
  /\ file = FileTorn
  /\ started = 0

(* ------------------------------ C21 ------------------------------------ *)
\* later is earlier with the usage_count of record i grown by 1 and nothing
\* else changed
OneCountMore(earlier, later, i) ==
  /\ Len(later) = Len(earlier)
  /\ i \in 1..Len(earlier)
  /\ later[i].UsageCount = earlier[i].UsageCount + 1
  /\ SameButUsage(earlier[i], later[i])
  /\ \A j \in 1..Len(earlier) : j # i => later[j] = earlier[j]

\* record i of recs is the first whose short_code is code
IsFirstWith(recs, i, code) ==
  /\ i \in 1..Len(recs)
  /\ recs[i].ShortCode = code
  /\ \A j \in 1..(i - 1) : recs[j].ShortCode # code

\* C21: a matched redirect changes one thing in the collection: the step that
\* stores the count leaves the collection as it was but for the usage_count of
\* the first record with the requested code, which grows by 1; no other step
\* of the redirect changes the collection, and the file a successful write
\* leaves is the whole collection, as the redirect found it, with that change
C21_RedirectChangesOneCount ==
  [][ \A p \in Procs :
        /\ (pc[p] = "redirect_incr" /\ pc'[p] # pc[p]) =>
             \E i \in 1..Len(urls) :
               /\ IsFirstWith(urls, i, RequestedCode(p))
               /\ OneCountMore(urls, urls', i)
        /\ (pc[p] \in { "redirect_lock", "redirect_scan", "redirect_save", "redirect_unlock",
                        "redirect_respond" } /\ pc'[p] # pc[p]) => urls' = urls
        /\ (pc[p] = "redirect_save" /\ pc'[p] # pc[p] /\ ~saveErr'[p]) =>
             /\ file'.state = "json"
             /\ Unmarshal(file'.body) = urls
             /\ \E i \in 1..Len(urls) :
                  /\ IsFirstWith(snap[p], i, RequestedCode(p))
                  /\ OneCountMore(snap[p], Unmarshal(file'.body), i)
    ]_vars

\* a redirect has written a collection of two records after incrementing the
\* second
C21_Witness ==
  \E p \in Procs :
    /\ pc[p] = "redirect_unlock"
    /\ found[p]
    /\ ~saveErr[p]
    /\ idx[p] = 2
    /\ Len(urls) = 2
    /\ file = FileJSON(MarshalIndent(urls))

(* ------------------------------ C22 ------------------------------------ *)
\* the positions at which a request waits for urlMutex
LockPCs == { "create_lock", "list_lock", "redirect_lock" }

\* with every pair in use a create in the generator loop stays in it, answers
\* nothing and keeps the mutex, the store stays full, and a request that waits
\* for the mutex goes on waiting
StuckWhenSaturated ==
  \A p \in Procs :
    (pc[p] = "create_draw" /\ Saturated) =>
      /\ pc'[p] = "create_draw"
      /\ urlMutex = p
      /\ urlMutex' = p
      /\ resp'[p] = NoResponse
      /\ Saturated'
      /\ urls' = urls
      /\ \A q \in Procs : pc[q] \in LockPCs => (pc'[q] = pc[q] /\ resp'[q] = NoResponse)

\* the loop is left only with a pair that no record has
LeavesWithFreePair ==
  \A p \in Procs :
    (pc[p] = "create_draw" /\ pc'[p] # pc[p]) =>
      /\ pc'[p] = "create_append"
      /\ ~Saturated
      /\ shortCode'[p] \in Codes
      /\ NoRecordHas(shortCode'[p])
      /\ urls' = urls

\* C22: the retry loop of the generator has no bound: when every pair is a
\* short_code of the store, a create that passed validation never answers and
\* never releases the mutex, and every create, list and redirect that waits
\* for the mutex waits for ever; when a pair is free, the loop ends (under fair
\* draws) and ends with a pair that is not in the store
C22_UnboundedRetry ==
  /\ [][StuckWhenSaturated /\ LeavesWithFreePair]_vars
  /\ \A p \in Procs : (pc[p] = "create_draw" /\ ~Saturated) ~> (pc[p] = "create_append")

\* a create goes round the loop of a full store while another request waits
\* for the mutex
C22_Witness ==
  \E p, q \in Procs :
    /\ pc[p] = "create_draw"
    /\ Saturated
    /\ drawn[p] # ""
    /\ pc[q] \in LockPCs

(* ------------------------------ C23 ------------------------------------ *)
\* recs holds a record with the short code and the URL of every 201 answered
\* so far, by this process or by one before it
HoldsAcked(recs) ==
  \A k \in 1..Len(acked) :
    \E i \in 1..Len(recs) :
      recs[i].ShortCode = acked[k][1] /\ recs[i].LongURL = acked[k][2]

\* C23: acknowledged creates are durable: as long as no failed write has left
\* the file truncated, every short_code answered in a 201 is in the file, with
\* the URL submitted, from the moment the 201 is written, through later
\* operations, failed writes and restarts; so the collection a restarted
\* process loads, and the collection of every serving process, holds every
\* acknowledged code with its URL
C23_AckedAreDurable ==
  /\ file.state = "json" => HoldsAcked(Unmarshal(file.body))
  /\ file.state = "absent" => acked = << >>
  /\ phase = "serving" => HoldsAcked(urls)
  /\ \A p \in Procs :
       (pc[p] = "create_return" /\ resp[p].status = 201 /\ file.state # "torn") =>
         \E i \in 1..Len(Unmarshal(file.body)) :
           /\ Unmarshal(file.body)[i].ShortCode = resp[p].short_code
           /\ Unmarshal(file.body)[i].LongURL = req[p].body.url

\* a restarted process has loaded a record that the process before it
\* acknowledged
C23_Witness ==
  /\ phase = "serving"
  /\ Len(acked) >= 1
  /\ \E i \in 1..Len(loaded) :
       loaded[i].ShortCode = acked[1][1] /\ loaded[i].LongURL = acked[1][2]

(* ------------------------------ C24 ------------------------------------ *)
\* the collection the file holds
FileRecords == Unmarshal(file.body)

\* the in-memory collection as it was at the last successful write, or as
\* init() loaded it when nothing has been written since
LastPersisted == IF written.ok THEN written.recs ELSE loaded

\* C24: the file never runs ahead of memory: as long as no failed write has
\* left the file truncated, the file of a serving process holds the in-memory
\* collection as it was at the last successful write (or at the load), so its
\* records are a prefix of the in-memory records with the same short_code,
\* long_url and created_at and a usage_count not above the one in memory
C24_FileNotAheadOfMemory ==
  (phase = "serving" /\ file.state = "json") =>
    /\ FileRecords = LastPersisted
    /\ PrefixButUsage(FileRecords, urls)
    /\ \A i \in 1..Len(FileRecords) : FileRecords[i].UsageCount <= urls[i].UsageCount

\* after a successful write a failed one has left the file behind memory: a
\* count in the file is below the count in memory
C24_Witness ==
  /\ phase = "serving"
  /\ file.state = "json"
  /\ written.ok
  /\ Len(FileRecords) = 2
  /\ \E i \in 1..Len(FileRecords) : FileRecords[i].UsageCount < urls[i].UsageCount

(* ------------------------------ C25 ------------------------------------ *)
\* p is a create or a matched redirect whose saveURLs has returned no error
\* and which has not yet released the mutex
HasWritten(p) ==
  /\ ~saveErr[p]
  /\ \/ pc[p] \in { "create_respond", "create_return" }
     \/ pc[p] = "redirect_unlock" /\ found[p]

\* the step in which the saveURLs of p returns no error
GoodWrite(p) ==
  /\ pc[p] \in { "create_save", "redirect_save" }
  /\ pc'[p] \in { "create_respond", "redirect_unlock" }
  /\ ~saveErr'[p]

\* recs holds a record for every create of this collection that was answered
\* 500 and every count of it that a redirect answered 500 has stored
HoldsRefused(recs) ==
  /\ Len(recs) = Len(urls)
  /\ \A i \in 1..Len(urls) :
       /\ urls[i].ShortCode \in refused => recs[i].ShortCode = urls[i].ShortCode
       /\ recs[i].UsageCount = urls[i].UsageCount

\* C25: memory and file converge again at the next successful write: saveURLs
\* writes the whole collection, so after the write of a create or of a matched
\* redirect has succeeded, and until the mutex is released, the file holds the
\* in-memory collection, with the records and the counts whose own request
\* was answered 500
C25_GoodWriteConverges ==
  [][ \A p \in Procs :
        /\ GoodWrite(p) =>
             /\ file'.state = "json"
             /\ Unmarshal(file'.body) = urls
             /\ urls' = urls
        /\ HasWritten(p) =>
             /\ file.state = "json"
             /\ FileRecords = urls
             /\ HoldsRefused(FileRecords)
    ]_vars

\* a restarted process has loaded a record whose create was answered 500
C25_Witness ==
  /\ phase = "serving"
  /\ \E i \in 1..Len(loaded) : loaded[i].ShortCode \in refused


(* ------------------------------ C26 ------------------------------------ *)
\* the request p is about to be given lies outside the API prefix
RoutedOutsideApi(p) ==
  /\ pc[p] = "idle"
  /\ pc'[p] # "idle"
  /\ ~IsApiPath(req'[p].path)

\* C26: the short-code lookup does not look at the HTTP method: a request
\* with any method whose path lies outside the API prefix and is not the root
\* enters the lookup with the path without its slash as the code; if a stored
\* record has that code the scan goes on to the increment, the increment
\* stores one more in the first such record and goes on to saveURLs, and
\* after a write without error the answer is 302 to that record's long_url
C26_LookupIgnoresMethod ==
  [][ \A p \in Procs :
        /\ RoutedOutsideApi(p) =>
             /\ shortCode'[p] = Join(TrimPrefix(req'[p].path, << "/" >>))
             /\ pc'[p] = IF shortCode'[p] # "" THEN "redirect_lock" ELSE "static"
        /\ (pc[p] \in LookupPCs /\ pc'[p] \in LookupPCs) =>
             /\ req'[p] = req[p]
             /\ shortCode'[p] = RequestedCode(p)
        /\ (pc[p] = "redirect_scan" /\ pc'[p] \in LookupPCs /\ pc'[p] # pc[p]) =>
             pc'[p] = IF NoRecordHas(RequestedCode(p)) THEN "redirect_unlock"
                                                       ELSE "redirect_incr"
        /\ (pc[p] = "redirect_incr" /\ pc'[p] \in LookupPCs /\ pc'[p] # pc[p]) =>
             /\ pc'[p] = "redirect_save"
             /\ \E i \in 1..Len(urls) :
                  /\ IsFirstWith(urls, i, RequestedCode(p))
                  /\ OneCountMore(urls, urls', i)
                  /\ targetURL'[p] = urls[i].LongURL
        /\ (pc[p] = "redirect_save" /\ pc'[p] \in LookupPCs /\ pc'[p] # pc[p]) =>
             /\ pc'[p] = "redirect_unlock"
             /\ saveErr'[p] \/ file' = FileJSON(MarshalIndent(urls))
        /\ (pc[p] = "redirect_unlock" /\ pc'[p] \in LookupPCs /\ pc'[p] # pc[p]) =>
             pc'[p] = IF found[p] THEN "redirect_respond" ELSE "static"
        /\ (pc[p] = "redirect_respond" /\ pc'[p] = "return") =>
             resp'[p] = IF saveErr[p]
                          THEN writeJSONError("Failed to update URL data", 500)
                          ELSE Redirect(targetURL[p])
    ]_vars

\* a POST for the short code of a stored record is answered 302 to its
\* long_url, with the count it incremented in memory and in the file
C26_Witness ==
  \E p \in Procs :
    /\ pc[p] = "return"
    /\ req[p].method = "POST"
    /\ ~IsApiPath(req[p].path)
    /\ \E i \in 1..Len(urls) :
         /\ IsFirstWith(urls, i, RequestedCode(p))
         /\ resp[p] = Redirect(urls[i].LongURL)
         /\ redirected[urls[i].ShortCode] = 1
         /\ i \in 1..Len(loaded)
         /\ urls[i].UsageCount = loaded[i].UsageCount + 1
    /\ file = FileJSON(MarshalIndent(urls))

====
